---- MODULE Spec2Model ----
(***************************************************************************)
(* Feedback Intelligence Platform (RoshanSanjeev/Relay).                   *)
(*                                                                         *)
(* State machine of the feedback-intake worker:                            *)
(*   - POST /api/feedback   (R2 put, D1 insert, WORKFLOW.create, 202)      *)
(*   - ProcessFeedbackWorkflow.run (five steps.do stages run by the        *)
(*     step-execution engine, with per-step retry)                         *)
(*   - GET /api/search      (vector attempt, keyword fallback, enrichment) *)
(*                                                                         *)
(* Strings are sequences of one-character strings, so that toLowerCase,    *)
(* includes, split and LIKE are computed and not assumed.  SQL NULL /      *)
(* JS undefined is the empty tuple NULL and a present value v is Some(v).  *)
(***************************************************************************)
EXTENDS Integers, Sequences, FiniteSets, TLC

VARIABLES d1, r2, vec, runs, nextId, now, resp, probe

vars == <<d1, r2, vec, runs, nextId, now, resp, probe>>

----------------------------------------------------------------------------
(* Bounds of the model *)

MaxItems == 1        \* submissions that get past validation
MaxRetries == 1      \* retries the engine grants a failing step
SeedItems == 2       \* processed items in the store of ArchiveSpec

Ids == 1..MaxItems

(* Program constants *)

TopK == 10                 \* VECTORIZE_INDEX.query topK
KeywordLimit == 10         \* LIMIT of the keyword query
SummaryMax == 100          \* text.length > 100
SummaryKeep == 97          \* text.substring(0, 97)
MinPercentage == 20        \* Math.max(20, relevancePercentage)

NULL == <<>>
Some(v) == <<v>>
IsNull(o) == o = <<>>
Val(o) == o[1]

----------------------------------------------------------------------------
(* Strings *)

UpperChars == <<"A","B","C","D","E","F","G","H","I","J","K","L","M",
                "N","O","P","Q","R","S","T","U","V","W","X","Y","Z">>
LowerChars == <<"a","b","c","d","e","f","g","h","i","j","k","l","m",
                "n","o","p","q","r","s","t","u","v","w","x","y","z">>

Lower(c) ==
  IF \E k \in 1..Len(UpperChars) : UpperChars[k] = c
    THEN LowerChars[CHOOSE k \in 1..Len(UpperChars) : UpperChars[k] = c]
    ELSE c

\* String.prototype.toLowerCase
ToLowerCase(s) == [k \in 1..Len(s) |-> Lower(s[k])]

\* String.prototype.includes
Includes(text, w) ==
  \E k \in 0..(Len(text) - Len(w)) : SubSeq(text, k + 1, k + Len(w)) = w

IsSpace(c) == c = " "

\* String.prototype.split(/\s+/): the pieces between maximal whitespace
\* runs; leading or trailing whitespace yields an empty piece.
RECURSIVE SplitWs(_)
SplitWs(s) ==
  IF \A k \in 1..Len(s) : ~IsSpace(s[k])
    THEN <<s>>
    ELSE LET a == CHOOSE k \in 1..Len(s) :
                    IsSpace(s[k]) /\ \A j \in 1..(k - 1) : ~IsSpace(s[j])
             b == CHOOSE k \in a..Len(s) :
                    /\ \A j \in a..k : IsSpace(s[j])
                    /\ (k = Len(s) \/ ~IsSpace(s[k + 1]))
         IN  <<SubSeq(s, 1, a - 1)>> \o SplitWs(SubSeq(s, b + 1, Len(s)))

\* SQLite LIKE: % matches any run, _ any one character, ASCII letters
\* compare case-insensitively.
RECURSIVE Like(_, _)
Like(pat, text) ==
  IF pat = <<>> THEN text = <<>>
  ELSE IF Head(pat) = "%"
    THEN Like(Tail(pat), text) \/ (text # <<>> /\ Like(pat, Tail(text)))
    ELSE /\ text # <<>>
         /\ (Head(pat) = "_" \/ Lower(Head(pat)) = Lower(Head(text)))
         /\ Like(Tail(pat), Tail(text))

\* column LIKE ? on a nullable column: NULL LIKE x is not true
SqlLike(col, pat) == ~IsNull(col) /\ Like(pat, Val(col))

\* Math.round(x / y * 100) for naturals x, y with y > 0
RoundPct(x, y) == (200 * x + y) \div (2 * y)

Max(a, b) == IF a >= b THEN a ELSE b

\* all orderings of a finite set as sequences without repetition
Perms(S) ==
  {f \in [1..Cardinality(S) -> S] :
     \A a, b \in 1..Cardinality(S) : a # b => f[a] # f[b]}

Range(f) == {f[k] : k \in DOMAIN f}

----------------------------------------------------------------------------
(* Inputs *)

TLoginBroken == <<"L","o","g","i","n"," ","b","r","o","k","e","n">>
TSlowApi == <<"s","l","o","w"," ","a","p","i">>
TNice == <<"n","i","c","e">>

Texts == {TLoginBroken, TSlowApi}

\* request bodies of POST /api/feedback: text undefined, text '', and
\* texts with and without a source
Bodies == {[text |-> NULL, source |-> NULL],
           [text |-> Some(<<>>), source |-> Some("email")],
           [text |-> Some(TLoginBroken), source |-> Some("email")],
           [text |-> Some(TSlowApi), source |-> NULL]}

QLogin == <<"L","O","G","I","N">>
QLoginProblems == <<"l","o","g","i","n"," ","p","r","o","b","l","e","m","s">>
QApi == <<"a","p","i">>
QSpace == <<" ">>
QWild == <<" ","a","_","i">>

Queries == {QLogin, QLoginProblems, QApi, QSpace, QWild}

\* what c.req.query('q') can be: undefined, '' or a string
QueryParams == {NULL, Some(<<>>)} \cup {Some(q) : q \in Queries}

\* JS truthiness of an optional string
Truthy(o) == ~IsNull(o) /\ Val(o) # <<>>

\* labels?.[0]?.label of the sentiment model: a label or nothing
SentimentLabels == {Some("NEGATIVE"), NULL}

\* id of a vector that is in the index without a row in the table (the
\* index is provisioned and filled independently of the feedback table)
StaleId == MaxItems + 1

----------------------------------------------------------------------------
(* Classify: the pure part of step 'analyze-with-ai' *)

\* categories[0]: the category is the first entry of the taxonomy
Categories == <<"Bug", "Feature Request", "Documentation", "Performance", "Other">>

\* urgencyKeywords in Object.entries order
UrgencyKeywords == <<
  [level |-> "critical", keywords |-> {<<"b","r","o","k","e","n">>, <<"c","r","a","s","h">>, <<"e","m","e","r","g","e","n","c","y">>, <<"u","r","g","e","n","t">>}],
  [level |-> "high", keywords |-> {<<"i","s","s","u","e">>, <<"p","r","o","b","l","e","m">>, <<"b","u","g">>, <<"e","r","r","o","r">>}],
  [level |-> "medium", keywords |-> {<<"i","m","p","r","o","v","e">>, <<"s","l","o","w">>, <<"s","u","g","g","e","s","t">>}],
  [level |-> "low", keywords |-> {<<"n","i","c","e">>, <<"i","d","e","a">>, <<"t","h","a","n","k","s">>}] >>

\* Urgency without the break: the last level with a hit wins
UrgencyLastHit(text) ==
  LET lowerText == ToLowerCase(text)
      Hit(k) == \E w \in UrgencyKeywords[k].keywords : Includes(lowerText, w)
  IN  IF \E k \in 1..Len(UrgencyKeywords) : Hit(k)
        THEN UrgencyKeywords[CHOOSE k \in 1..Len(UrgencyKeywords) :
                               Hit(k) /\ \A j \in (k + 1)..Len(UrgencyKeywords) : ~Hit(j)].level
        ELSE "low"

\* the for..of loop over urgencyKeywords with break on the first hit
Urgency(text) ==
  LET lowerText == ToLowerCase(text)
      Hit(k) == \E w \in UrgencyKeywords[k].keywords : Includes(lowerText, w)
  IN  IF \E k \in 1..Len(UrgencyKeywords) : Hit(k)
        THEN UrgencyKeywords[CHOOSE k \in 1..Len(UrgencyKeywords) :
                               Hit(k) /\ \A j \in 1..(k - 1) : ~Hit(j)].level
        ELSE "low"

\* Summary with >= in place of >: a text of exactly 100 characters is cut
SummaryCutsAtMax(text) ==
  IF Len(text) >= SummaryMax
    THEN SubSeq(text, 1, SummaryKeep) \o <<".", ".", ".">>
    ELSE text

\* text.length > 100 ? text.substring(0, 97) + '...' : text
Summary(text) ==
  IF Len(text) > SummaryMax
    THEN SubSeq(text, 1, SummaryKeep) \o <<".", ".", ".">>
    ELSE text

\* tagMap in Object.entries order
TagMap == <<
  [tag |-> "UX", keywords |-> {<<"u","i">>, <<"i","n","t","e","r","f","a","c","e">>, <<"d","e","s","i","g","n">>, <<"b","u","t","t","o","n">>, <<"c","o","l","o","r">>, <<"l","a","y","o","u","t">>}],
  [tag |-> "Performance", keywords |-> {<<"s","l","o","w">>, <<"f","a","s","t">>, <<"s","p","e","e","d">>, <<"l","a","g">>, <<"t","i","m","e","o","u","t">>, <<"l","a","t","e","n","c","y">>}],
  [tag |-> "Documentation", keywords |-> {<<"d","o","c">>, <<"g","u","i","d","e">>, <<"r","e","a","d","m","e">>, <<"t","u","t","o","r","i","a","l">>, <<"e","x","a","m","p","l","e">>}],
  [tag |-> "Mobile", keywords |-> {<<"m","o","b","i","l","e">>, <<"p","h","o","n","e">>, <<"i","o","s">>, <<"a","n","d","r","o","i","d">>, <<"r","e","s","p","o","n","s","i","v","e">>}],
  [tag |-> "API", keywords |-> {<<"a","p","i">>, <<"e","n","d","p","o","i","n","t">>, <<"r","e","s","t">>, <<"g","r","a","p","h","q","l">>, <<"s","d","k">>}],
  [tag |-> "Security", keywords |-> {<<"s","e","c","u","r","i","t","y">>, <<"a","u","t","h">>, <<"s","s","l">>, <<"e","n","c","r","y","p","t">>, <<"t","o","k","e","n">>}],
  [tag |-> "Crash", keywords |-> {<<"c","r","a","s","h">>, <<"e","r","r","o","r">>, <<"f","a","i","l">>, <<"e","x","c","e","p","t","i","o","n">>, <<"b","r","o","k","e","n">>}] >>

\* extractTags: the tags whose keyword occurs, in tagMap order
extractTags(text) ==
  LET lowerText == ToLowerCase(text)
      Hit(e) == \E w \in e.keywords : Includes(lowerText, w)
      hits == SelectSeq(TagMap, Hit)
  IN  [k \in 1..Len(hits) |-> hits[k].tag]

\* the value the 'analyze-with-ai' callback returns, given the label the
\* sentiment model answered with
Analysis(text, label) ==
  [sentiment |-> IF IsNull(label) THEN "neutral" ELSE Val(label),
   category  |-> Categories[1],
   urgency   |-> Urgency(text),
   summary   |-> Summary(text),
   tags      |-> extractTags(text)]

----------------------------------------------------------------------------
(* Collaborator state and its initial value *)

\* r2Key = `feedback/${feedbackId}.json`
R2Key(id) == <<"feedback", id>>

\* the vector the embedding model returns for a text
Embedding(text) == [model |-> "bge-base-en-v1.5", of |-> text]

StaleVector == [values |-> Some(Embedding(TNice)),
                metadata |-> [feedbackId |-> StaleId,
                              sentiment |-> "neutral", category |-> "Bug"]]

NoResponse == [op |-> "none"]

Init ==
  /\ d1 = <<>>
  /\ r2 = <<>>
  /\ vec \in {<<>>, (StaleId :> StaleVector)}
  /\ runs = <<>>
  /\ nextId = 1
  /\ now = 0
  /\ resp = NoResponse
  /\ probe = NoResponse

----------------------------------------------------------------------------
(* POST /api/feedback *)

\* InsertRow with another status literal than the schema's
InsertRowPending(id, r2Key, text, timestamp) ==
  [id |-> id, r2_key |-> r2Key, original_text |-> text,
   status |-> "PENDING", created_at |-> timestamp,
   sentiment |-> NULL, category |-> NULL, urgency |-> NULL, summary |-> NULL,
   vector_id |-> NULL, tags |-> NULL,
   updated_at |-> NULL, processing_completed_at |-> NULL]

\* INSERT INTO feedback (id, r2_key, original_text, status, created_at)
\* VALUES (?, ?, ?, 'PROCESSING', ?); the other columns take their default
InsertRow(id, r2Key, text, timestamp) ==
  [id |-> id, r2_key |-> r2Key, original_text |-> text,
   status |-> "PROCESSING", created_at |-> timestamp,
   sentiment |-> NULL, category |-> NULL, urgency |-> NULL, summary |-> NULL,
   vector_id |-> NULL, tags |-> NULL,
   updated_at |-> NULL, processing_completed_at |-> NULL]

\* rawPayload
RawPayload(id, text, source, timestamp) ==
  [id |-> id, text |-> text, source |-> source, timestamp |-> timestamp]

\* the run the engine starts for WORKFLOW.create('process-feedback', payload)
NewRun(feedbackId, r2Key) ==
  [payload |-> [feedbackId |-> feedbackId, r2Key |-> r2Key],
   state |-> "running", step |-> 1, attempts |-> 0,
   rawFeedback |-> NULL, analysis |-> NULL, vector |-> NULL, vectorId |-> NULL]

\* outcomes of the inner try around WORKFLOW.create: the run is created,
\* the call throws (caught and logged), or the binding is not configured
TriggerOutcomes == {"created", "threw", "unbound"}

\* TriggerWorkflow handing the engine a key built for another id
TriggerWorkflowWrongKey(rs, feedbackId, r2Key, outcome) ==
  IF outcome = "created"
    THEN rs @@ (feedbackId :> NewRun(feedbackId, R2Key(feedbackId + 1)))
    ELSE rs

\* TriggerWorkflow with the binding test inverted: create is never called
TriggerWorkflowSkipped(rs, feedbackId, r2Key, outcome) == rs

\* Step 3 of the handler: the runs after the trigger
TriggerWorkflow(rs, feedbackId, r2Key, outcome) ==
  IF outcome = "created"
    THEN rs @@ (feedbackId :> NewRun(feedbackId, r2Key))
    ELSE rs

\* new Date(): the millisecond of the latest timestamp or a later one
\* (now is the latest timestamp handed out, 0 before the first)
Timestamps == {t \in {now, now + 1} : t >= 1}

\* a pipeline step answers no request
Silent == resp' = NoResponse /\ probe' = NoResponse

\* body.source || 'web'
SourceOf(src) == IF IsNull(src) THEN "web" ELSE Val(src)

\* if (!body.text) return 400
SubmitInvalid ==
  /\ \E body \in Bodies :
       /\ ~Truthy(body.text)
       /\ resp' = [op |-> "submit", status |-> 400]
       /\ probe' = [op |-> "submit", text |-> body.text, r2 |-> "notrun",
                    d1 |-> "notrun", trigger |-> "notrun"]
  /\ UNCHANGED <<d1, r2, vec, runs, nextId, now>>

\* R2_BUCKET.put throws: outer catch, 500
SubmitR2Fails ==
  /\ nextId <= MaxItems
  /\ \E body \in Bodies, t \in Timestamps :
       /\ Truthy(body.text)
       /\ nextId' = nextId + 1
       /\ now' = t
       /\ resp' = [op |-> "submit", status |-> 500]
       /\ probe' = [op |-> "submit", text |-> body.text, r2 |-> "raised",
                    d1 |-> "notrun", trigger |-> "notrun"]
  /\ UNCHANGED <<d1, r2, vec, runs>>

\* SubmitD1Fails with WORKFLOW.create called before the INSERT: the run is
\* created, then the INSERT throws
SubmitD1FailsAfterTrigger ==
  /\ nextId <= MaxItems
  /\ \E body \in Bodies, t \in Timestamps :
       /\ Truthy(body.text)
       /\ r2' = r2 @@ (R2Key(nextId) :>
                         RawPayload(nextId, Val(body.text), SourceOf(body.source), t))
       /\ runs' = runs @@ (nextId :> NewRun(nextId, R2Key(nextId)))
       /\ nextId' = nextId + 1
       /\ now' = t
       /\ resp' = [op |-> "submit", status |-> 500]
       /\ probe' = [op |-> "submit", text |-> body.text, r2 |-> "ok",
                    d1 |-> "raised", trigger |-> "created"]
  /\ UNCHANGED <<d1, vec>>

\* R2_BUCKET.put succeeds, the INSERT throws: outer catch, 500
SubmitD1Fails ==
  /\ nextId <= MaxItems
  /\ \E body \in Bodies, t \in Timestamps :
       /\ Truthy(body.text)
       /\ r2' = r2 @@ (R2Key(nextId) :>
                         RawPayload(nextId, Val(body.text), SourceOf(body.source), t))
       /\ nextId' = nextId + 1
       /\ now' = t
       /\ resp' = [op |-> "submit", status |-> 500]
       /\ probe' = [op |-> "submit", text |-> body.text, r2 |-> "ok",
                    d1 |-> "raised", trigger |-> "notrun"]
  /\ UNCHANGED <<d1, vec, runs>>

\* put, insert, trigger ending as outcome (a throw is swallowed), 202
Accept(outcome) ==
  /\ nextId <= MaxItems
  /\ \E body \in Bodies, t \in Timestamps :
       LET feedbackId == nextId
           r2Key == R2Key(feedbackId)
       IN  /\ Truthy(body.text)
           /\ r2' = r2 @@ (r2Key :>
                             RawPayload(feedbackId, Val(body.text),
                                        SourceOf(body.source), t))
           /\ d1' = d1 @@ (feedbackId :>
                             InsertRow(feedbackId, r2Key, Val(body.text), t))
           /\ runs' = TriggerWorkflow(runs, feedbackId, r2Key, outcome)
           /\ nextId' = nextId + 1
           /\ now' = t
           /\ resp' = [op |-> "submit", status |-> 202, id |-> feedbackId,
                       body_status |-> "PROCESSING", r2_key |-> r2Key]
           /\ probe' = [op |-> "submit", text |-> body.text, r2 |-> "ok",
                        d1 |-> "ok", trigger |-> outcome]
  /\ UNCHANGED vec

SubmitAccepted == \E outcome \in TriggerOutcomes : Accept(outcome)

----------------------------------------------------------------------------
(* ProcessFeedbackWorkflow.run, one action per outcome of a steps.do *)

StepNames == <<"fetch-from-r2", "analyze-with-ai", "generate-embedding",
               "upsert-to-vectorize", "update-d1">>

\* the run of item i is at the stage called name
AtStep(i, name) ==
  /\ i \in DOMAIN runs
  /\ runs[i].state = "running"
  /\ StepNames[runs[i].step] = name

\* StepReturns when run() does not await the next steps.do: the stage after
\* the next one is started
StepReturnsSkips(run) ==
  [run EXCEPT !.attempts = 0,
              !.step = IF @ + 1 < Len(StepNames) THEN @ + 2
                       ELSE IF @ < Len(StepNames) THEN @ + 1 ELSE @,
              !.state = IF run.step = Len(StepNames) THEN "complete" ELSE @]

\* steps.do resolved: its value is checkpointed and run() goes on to the
\* next steps.do, or returns after the last one
StepReturns(run) ==
  [run EXCEPT !.attempts = 0,
              !.step = IF @ < Len(StepNames) THEN @ + 1 ELSE @,
              !.state = IF run.step = Len(StepNames) THEN "complete" ELSE @]

\* the callback of steps.do threw (or its attempt was lost): the engine
\* runs it again while retries are left, then the throw leaves run()
StepThrows(run) ==
  IF run.attempts < MaxRetries
    THEN [run EXCEPT !.attempts = @ + 1]
    ELSE [run EXCEPT !.state = "errored"]

\* data[0] || [] when the model answers without data
EmptyVector == [model |-> "none", of |-> <<>>]

\* Step 1: R2_BUCKET.get(payload.r2Key), JSON.parse
FetchFromR2(i) ==
  /\ AtStep(i, "fetch-from-r2")
  /\ runs[i].payload.r2Key \in DOMAIN r2
  /\ runs' = [runs EXCEPT ![i] =
                StepReturns([@ EXCEPT !.rawFeedback = Some(r2[runs[i].payload.r2Key])])]
  /\ UNCHANGED <<d1, r2, vec, nextId, now>>
  /\ Silent

\* Step 1 throws: the object is absent, or the get itself fails
FetchFromR2Throws(i) ==
  /\ AtStep(i, "fetch-from-r2")
  /\ runs' = [runs EXCEPT ![i] = StepThrows(@)]
  /\ UNCHANGED <<d1, r2, vec, nextId, now>>
  /\ Silent

\* Step 1 when the bucket no longer holds the object (it was removed from
\* the bucket by something other than this worker): get answers null and
\* the callback throws a plain Error, which the engine handles as any throw
FetchFromR2Missing(i) ==
  /\ AtStep(i, "fetch-from-r2")
  /\ r2' = [k \in DOMAIN r2 \ {runs[i].payload.r2Key} |-> r2[k]]
  /\ runs' = [runs EXCEPT ![i] = StepThrows(@)]
  /\ UNCHANGED <<d1, vec, nextId, now>>
  /\ Silent

\* Step 2: both AI.run calls answer
AnalyzeWithAI(i) ==
  /\ AtStep(i, "analyze-with-ai")
  /\ \E label \in SentimentLabels :
       runs' = [runs EXCEPT ![i] =
                  StepReturns([@ EXCEPT !.analysis =
                     Some(Analysis(Val(runs[i].rawFeedback).text, label))])]
  /\ UNCHANGED <<d1, r2, vec, nextId, now>>
  /\ Silent

\* Step 2: AI.run (sentiment or category score) throws; nothing catches it
AnalyzeWithAIThrows(i) ==
  /\ AtStep(i, "analyze-with-ai")
  /\ runs' = [runs EXCEPT ![i] = StepThrows(@)]
  /\ UNCHANGED <<d1, r2, vec, nextId, now>>
  /\ Silent

\* Step 3: AI.run answers, with or without data[0]
GenerateEmbedding(i) ==
  /\ AtStep(i, "generate-embedding")
  /\ \E v \in {Embedding(Val(runs[i].rawFeedback).text), EmptyVector} :
       runs' = [runs EXCEPT ![i] = StepReturns([@ EXCEPT !.vector = Some(v)])]
  /\ UNCHANGED <<d1, r2, vec, nextId, now>>
  /\ Silent

\* Step 3: AI.run throws; nothing catches it
GenerateEmbeddingThrows(i) ==
  /\ AtStep(i, "generate-embedding")
  /\ runs' = [runs EXCEPT ![i] = StepThrows(@)]
  /\ UNCHANGED <<d1, r2, vec, nextId, now>>
  /\ Silent

\* the entry VECTORIZE_INDEX.upsert is called with
VectorEntry(run) ==
  [values |-> run.vector,
   metadata |-> [feedbackId |-> run.payload.feedbackId,
                 sentiment |-> Val(run.analysis).sentiment,
                 category |-> Val(run.analysis).category]]

\* the index after the try { upsert } catch { warn } of step 4; an empty
\* vector does not fit the index and is refused
UpsertToVectorize(index, run, ok) ==
  IF ok /\ Val(run.vector) # EmptyVector
    THEN [k \in DOMAIN index \cup {run.payload.feedbackId} |->
            IF k = run.payload.feedbackId THEN VectorEntry(run) ELSE index[k]]
    ELSE index

\* Upsert without the try/catch: a refused upsert throws out of the step
UpsertUncaught(i, ok) ==
  /\ AtStep(i, "upsert-to-vectorize")
  /\ vec' = UpsertToVectorize(vec, runs[i], ok)
  /\ runs' = [runs EXCEPT ![i] =
                IF ok THEN StepReturns([@ EXCEPT !.vectorId =
                                          Some(runs[i].payload.feedbackId)])
                      ELSE StepThrows(@)]
  /\ UNCHANGED <<d1, r2, nextId, now>>
  /\ Silent

\* Step 4: the callback always returns id, whether the upsert threw (~ok)
\* or not
Upsert(i, ok) ==
  /\ AtStep(i, "upsert-to-vectorize")
  /\ vec' = UpsertToVectorize(vec, runs[i], ok)
  /\ runs' = [runs EXCEPT ![i] =
                StepReturns([@ EXCEPT !.vectorId = Some(runs[i].payload.feedbackId)])]
  /\ UNCHANGED <<d1, r2, nextId, now>>
  /\ Silent

UpsertStep(i) == \E ok \in BOOLEAN : Upsert(i, ok)

\* Step 4 ran but its attempt was lost before the checkpoint (timeout,
\* engine restart): the engine executes the callback again
UpsertStepRerun(i) ==
  /\ AtStep(i, "upsert-to-vectorize")
  /\ \E ok \in BOOLEAN :
       vec' = UpsertToVectorize(vec, runs[i], ok)
  /\ runs' = [runs EXCEPT ![i] = StepThrows(@)]
  /\ UNCHANGED <<d1, r2, nextId, now>>
  /\ Silent

\* UpdateRow with the tags column left out of the SET list
UpdateRowNoTags(row, analysis, vectorId, timestamp) ==
  [row EXCEPT !.status = "COMPLETED",
              !.sentiment = Some(analysis.sentiment),
              !.category = Some(analysis.category),
              !.urgency = Some(analysis.urgency),
              !.summary = Some(analysis.summary),
              !.vector_id = vectorId,
              !.processing_completed_at = Some(timestamp)]

\* UPDATE feedback SET status = 'COMPLETED', sentiment = ?, category = ?,
\* urgency = ?, summary = ?, vector_id = ?, tags = ?,
\* processing_completed_at = ? applied to one row
UpdateRow(row, analysis, vectorId, timestamp) ==
  [row EXCEPT !.status = "COMPLETED",
              !.sentiment = Some(analysis.sentiment),
              !.category = Some(analysis.category),
              !.urgency = Some(analysis.urgency),
              !.summary = Some(analysis.summary),
              !.vector_id = vectorId,
              !.tags = Some(analysis.tags),
              !.processing_completed_at = Some(timestamp)]

\* the UPDATE without its WHERE clause
UpdateD1EveryRow(table, run, timestamp) ==
  [k \in DOMAIN table |->
     UpdateRow(table[k], Val(run.analysis), run.vectorId, timestamp)]

\* ... WHERE id = ?
UpdateD1(table, run, timestamp) ==
  [k \in DOMAIN table |->
     IF k = run.payload.feedbackId
       THEN UpdateRow(table[k], Val(run.analysis), run.vectorId, timestamp)
       ELSE table[k]]

\* Step 5: the UPDATE runs and the step is checkpointed
UpdateD1Step(i) ==
  /\ AtStep(i, "update-d1")
  /\ d1' = UpdateD1(d1, runs[i], now)
  /\ runs' = [runs EXCEPT ![i] = StepReturns(@)]
  /\ UNCHANGED <<r2, vec, nextId, now>>
  /\ Silent

\* Step 5 as two statements, the second of which throws: the annotations
\* are written, the status is not
UpdateD1StepThrowsHalfWritten(i) ==
  /\ AtStep(i, "update-d1")
  /\ d1' = [d1 EXCEPT ![i].sentiment = Some(Val(runs[i].analysis).sentiment),
                      ![i].summary = Some(Val(runs[i].analysis).summary)]
  /\ runs' = [runs EXCEPT ![i] = StepThrows(@)]
  /\ UNCHANGED <<r2, vec, nextId, now>>
  /\ Silent

\* Step 5: D1 throws, the row is untouched
UpdateD1StepThrows(i) ==
  /\ AtStep(i, "update-d1")
  /\ runs' = [runs EXCEPT ![i] = StepThrows(@)]
  /\ UNCHANGED <<d1, r2, vec, nextId, now>>
  /\ Silent

\* Step 5: the UPDATE was applied but the attempt was lost before the
\* checkpoint: the engine executes the callback again
UpdateD1StepRerun(i) ==
  /\ AtStep(i, "update-d1")
  /\ d1' = UpdateD1(d1, runs[i], now)
  /\ runs' = [runs EXCEPT ![i] = StepThrows(@)]
  /\ UNCHANGED <<r2, vec, nextId, now>>
  /\ Silent

----------------------------------------------------------------------------
(* GET /api/search *)

\* the columns the keyword query reads; the INSERT of the submit handler
\* fills the text column only
ContentOf(row) == Some(row.original_text)
TitleOf(row) == NULL
ThemeOf(row) == NULL

\* searchResults.matches.map(m => m.id): up to topK ids of the index, in
\* the order the index ranks them
IndexAnswers ==
  UNION {Perms(S) : S \in {T \in SUBSET DOMAIN vec : Cardinality(T) <= TopK}}

\* m.score of the matches, in hundredths of the cosine similarity
Similarities == {-5, 90}

\* the scores of an answer of the index: one per match, nearest first
IndexScores(m) ==
  {sc \in [1..Len(m) -> Similarities] :
     \A a, b \in 1..Len(m) : a < b => sc[a] >= sc[b]}

\* the inner try of the handler.  A member says how the vector attempt
\* ended and what it left in `results` and `usedVectorize`; rows come back
\* from SELECT * ... WHERE id IN (...) in an order the query does not fix
VectorOutcomes ==
  {[vector |-> w, candidates |-> <<>>, scores |-> <<>>, results |-> <<>>,
    usedVectorize |-> FALSE] :
      w \in {"unbound", "embedThrew", "queryThrew"}}
  \cup
  {[vector |-> "noCandidates", candidates |-> <<>>, scores |-> <<>>,
    results |-> <<>>, usedVectorize |-> FALSE]}
  \cup
  {[vector |-> "hydrateThrew", candidates |-> <<>>, scores |-> <<>>,
    results |-> <<>>, usedVectorize |-> FALSE] : m \in IndexAnswers \ {<<>>}}
  \cup
  UNION {{[vector |-> "hydrated", candidates |-> m, scores |-> sc,
           results |-> rows, usedVectorize |-> TRUE] :
            rows \in Perms(Range(m) \cap DOMAIN d1), sc \in IndexScores(m)} :
         m \in IndexAnswers \ {<<>>}}

\* KeywordMatches as a match of any single word of the query
KeywordMatchesAnyWord(query) ==
  LET words == SplitWs(query)
      Term(w) == <<"%">> \o w \o <<"%">>
  IN  {i \in DOMAIN d1 :
         \E n \in DOMAIN words :
            /\ words[n] # <<>>
            /\ \/ SqlLike(ContentOf(d1[i]), Term(words[n]))
               \/ SqlLike(TitleOf(d1[i]), Term(words[n]))
               \/ SqlLike(ThemeOf(d1[i]), Term(words[n]))}

\* WHERE content LIKE ? OR title LIKE ? OR theme LIKE ?, with ? = %query%
KeywordMatches(query) ==
  LET searchTerm == <<"%">> \o query \o <<"%">>
  IN  {i \in DOMAIN d1 : \/ SqlLike(ContentOf(d1[i]), searchTerm)
                         \/ SqlLike(TitleOf(d1[i]), searchTerm)
                         \/ SqlLike(ThemeOf(d1[i]), searchTerm)}

\* ORDER BY created_at DESC LIMIT 10; rows with equal created_at come in
\* either order
KeywordRows(query) ==
  {SubSeq(f, 1, IF Len(f) < KeywordLimit THEN Len(f) ELSE KeywordLimit) :
     f \in {g \in Perms(KeywordMatches(query)) :
              \A a, b \in DOMAIN g :
                 a < b => d1[g[a]].created_at >= d1[g[b]].created_at}}

\* the keyword query threw, or answered with rows
KeywordOutcomes(query) ==
  {[keyword |-> "threw", rows |-> <<>>]}
  \cup {[keyword |-> "ok", rows |-> rows] : rows \in KeywordRows(query)}

KeywordNotRun == [keyword |-> "notrun", rows |-> <<>>]

\* getRelevanceExplanation(feedback, query, score)
getRelevanceExplanation(content, query, score) ==
  LET text == ToLowerCase(content)
      queryLower == ToLowerCase(query)
      NonEmpty(w) == Len(w) > 0
      words == SelectSeq(SplitWs(queryLower), NonEmpty)
      InText(w) == Includes(text, w)
      matchedKeywords == SelectSeq(words, InText)
  IN  IF score > 80
        THEN [text |-> "Very strong match.",
              keywords |-> SubSeq(matchedKeywords, 1,
                                  IF Len(matchedKeywords) < 3
                                    THEN Len(matchedKeywords) ELSE 3)]
      ELSE IF score > 60
        THEN [text |-> "Good match. Similar content and language patterns detected.",
              keywords |-> <<>>]
      ELSE IF score > 40
        THEN [text |-> "Moderate relevance. Some content overlap with your search.",
              keywords |-> <<>>]
      ELSE [text |-> "Related feedback. Could be relevant to your search.",
            keywords |-> <<>>]

\* one element of enrichedResults: the row (named by its id) and relevance
Enrich(i, query) ==
  LET content == ToLowerCase(d1[i].original_text)
      queryTerms == SplitWs(ToLowerCase(query))
      InContent(t) == Includes(content, t)
      matches == Len(SelectSeq(queryTerms, InContent))
      relevancePercentage ==
        IF Len(queryTerms) > 0 THEN RoundPct(matches, Len(queryTerms)) ELSE 0
  IN  [id |-> i,
       percentage |-> Max(MinPercentage, relevancePercentage),
       explanation |-> getRelevanceExplanation(d1[i].original_text, query,
                                               relevancePercentage)]

\* the exception a failing D1 statement throws
StoreError == [name |-> "Error", message |-> "D1_ERROR: statement failed"]

\* String(error) of an Error object
StringOf(error) == <<error.name, ": ", error.message>>

\* SearchResponse without the inner catch: a throw of the vector attempt
\* reaches the outer catch
SearchResponseNoInnerCatch(query, v, k) ==
  LET results == IF v.results # <<>> THEN v.results ELSE k.rows
  IN  IF k.keyword = "threw" \/ v.vector \in {"embedThrew", "queryThrew", "hydrateThrew"}
        THEN [op |-> "search", status |-> 500, searchType |-> "error",
              error |-> "Search failed", details |-> StringOf(StoreError)]
        ELSE [op |-> "search", status |-> 200, query |-> query,
              results |-> [n \in 1..Len(results) |-> Enrich(results[n], query)],
              matches |-> Len(results),
              searchType |-> IF v.usedVectorize THEN "semantic" ELSE "keyword",
              process |-> IF v.usedVectorize THEN "vector steps" ELSE "keyword steps"]

\* SearchResponse with the keyword query wrapped in a catch of its own:
\* its throw is answered with an empty result list
SearchResponseSwallows(query, v, k) ==
  LET results == IF v.results # <<>> THEN v.results ELSE k.rows
  IN  [op |-> "search", status |-> 200, query |-> query,
       results |-> [n \in 1..Len(results) |-> Enrich(results[n], query)],
       matches |-> Len(results),
       searchType |-> IF v.usedVectorize THEN "semantic" ELSE "keyword",
       process |-> IF v.usedVectorize THEN "vector steps" ELSE "keyword steps"]

\* what the handler answers once the vector attempt ended as v and the
\* keyword query (run only when `results` is empty) ended as k
SearchResponse(query, v, k) ==
  LET results == IF v.results # <<>> THEN v.results ELSE k.rows
  IN  IF k.keyword = "threw"
        THEN [op |-> "search", status |-> 500, searchType |-> "error",
              error |-> "Search failed", details |-> StringOf(StoreError)]
        ELSE [op |-> "search", status |-> 200, query |-> query,
              results |-> [n \in 1..Len(results) |-> Enrich(results[n], query)],
              matches |-> Len(results),
              searchType |-> IF v.usedVectorize THEN "semantic" ELSE "keyword",
              process |-> IF v.usedVectorize THEN "vector steps" ELSE "keyword steps"]

\* if (!query) return 400
SearchInvalid ==
  /\ \E q \in QueryParams :
       /\ ~Truthy(q)
       /\ resp' = [op |-> "search", status |-> 400]
       /\ probe' = [op |-> "search", query |-> q, vector |-> "notrun",
                    keyword |-> "notrun", candidates |-> <<>>,
                    scores |-> <<>>, rows |-> <<>>]
  /\ UNCHANGED <<d1, r2, vec, runs, nextId, now>>

\* Search with a write: the rows it answers with get their updated_at set
SearchTouchesRows ==
  /\ resp.op # "search"
  /\ \E q \in QueryParams, v \in VectorOutcomes :
       /\ Truthy(q)
       /\ \E k \in IF v.results = <<>> THEN KeywordOutcomes(Val(q))
                                       ELSE {KeywordNotRun} :
            /\ resp' = SearchResponse(Val(q), v, k)
            /\ probe' = [op |-> "search", query |-> q, vector |-> v.vector,
                         keyword |-> k.keyword, candidates |-> v.candidates,
                         scores |-> v.scores, rows |-> k.rows]
            /\ d1' = [i \in DOMAIN d1 |->
                        IF i \in Range(v.results) \cup Range(k.rows)
                          THEN [d1[i] EXCEPT !.updated_at = Some(now)]
                          ELSE d1[i]]
  /\ UNCHANGED <<r2, vec, runs, nextId, now>>

\* The handler past the query check.  Searches read the store and write
\* nothing, so a search that follows a search answers what it would have
\* answered in its place; only the first of a row of searches is explored.
Search ==
  /\ resp.op # "search"
  /\ \E q \in QueryParams, v \in VectorOutcomes :
       /\ Truthy(q)
       /\ \E k \in IF v.results = <<>> THEN KeywordOutcomes(Val(q))
                                       ELSE {KeywordNotRun} :
            /\ resp' = SearchResponse(Val(q), v, k)
            /\ probe' = [op |-> "search", query |-> q, vector |-> v.vector,
                         keyword |-> k.keyword, candidates |-> v.candidates,
                         scores |-> v.scores, rows |-> k.rows]
  /\ UNCHANGED <<d1, r2, vec, runs, nextId, now>>

----------------------------------------------------------------------------
(* The system *)

\* requests to POST /api/feedback
SubmitNext ==
  \/ SubmitInvalid
  \/ SubmitR2Fails
  \/ SubmitD1Fails
  \/ SubmitAccepted

\* steps of the engine on the runs
WorkflowNext ==
  \/ \E i \in Ids : FetchFromR2(i)
  \/ \E i \in Ids : FetchFromR2Throws(i)
  \/ \E i \in Ids : AnalyzeWithAI(i)
  \/ \E i \in Ids : AnalyzeWithAIThrows(i)
  \/ \E i \in Ids : GenerateEmbedding(i)
  \/ \E i \in Ids : GenerateEmbeddingThrows(i)
  \/ \E i \in Ids : UpsertStep(i)
  \/ \E i \in Ids : UpsertStepRerun(i)
  \/ \E i \in Ids : UpdateD1Step(i)
  \/ \E i \in Ids : UpdateD1StepThrows(i)
  \/ \E i \in Ids : UpdateD1StepRerun(i)

\* requests to GET /api/search
SearchNext ==
  \/ SearchInvalid
  \/ Search

Next == SubmitNext \/ WorkflowNext \/ SearchNext

Spec == Init /\ [][Next]_vars

\* submissions and their pipeline runs, with every failure
PipelineNext == SubmitNext \/ WorkflowNext

PipelineSpec == Init /\ [][PipelineNext]_vars

\* the steps of a run when no callback throws and no attempt is lost
\* (an upsert that fails is caught inside its step)
StepsNext ==
  \/ \E i \in Ids : FetchFromR2(i)
  \/ \E i \in Ids : AnalyzeWithAI(i)
  \/ \E i \in Ids : GenerateEmbedding(i)
  \/ \E i \in Ids : UpsertStep(i)
  \/ \E i \in Ids : UpdateD1Step(i)

\* searches against every store and index that submissions and runs build
QueryNext == SubmitAccepted \/ StepsNext \/ SearchNext

QuerySpec == Init /\ [][QueryNext]_vars

\* one step of the run of item i
RunStep(i) ==
  \/ FetchFromR2(i)
  \/ AnalyzeWithAI(i)
  \/ GenerateEmbedding(i)
  \/ UpsertStep(i)
  \/ UpdateD1Step(i)

\* no collaborator call fails: every trigger creates its run, every
\* upsert is stored unless the vector is empty
HealthyNext ==
  \/ SubmitInvalid
  \/ Accept("created")
  \/ \E i \in Ids : FetchFromR2(i)
  \/ \E i \in Ids : AnalyzeWithAI(i)
  \/ \E i \in Ids : GenerateEmbedding(i)
  \/ \E i \in Ids : Upsert(i, TRUE)
  \/ \E i \in Ids : UpdateD1Step(i)

\* the engine takes the next step of every run it has
EngineFairness == \A i \in Ids : WF_vars(RunStep(i))

HealthySpec == Init /\ [][HealthyNext]_vars /\ EngineFairness

\* as HealthySpec, but the vector index may refuse any upsert
UpsertFaultNext ==
  \/ SubmitInvalid
  \/ Accept("created")
  \/ StepsNext

UpsertFaultSpec == Init /\ [][UpsertFaultNext]_vars /\ EngineFairness

\* submissions and runs, where the bucket may also lose a raw payload
PayloadLossNext == PipelineNext \/ \E i \in Ids : FetchFromR2Missing(i)

PayloadLossSpec == Init /\ [][PayloadLossNext]_vars

----------------------------------------------------------------------------
(* Searches over a store of processed items *)

SeedIds == 1..SeedItems

\* the texts of the items, in order of submission
SeedTexts == [SeedIds -> Texts]

\* their timestamps: each submission is stamped with the millisecond of
\* the one before it or the next
SeedTimes ==
  {f \in [SeedIds -> SeedIds] :
     /\ f[1] = 1
     /\ \A i \in SeedIds \ {1} : f[i] \in {f[i - 1], f[i - 1] + 1}}

\* the source the request with this text carries
SeedSource(text) == SourceOf((CHOOSE b \in Bodies : b.text = Some(text)).source)

\* the run of item i after its five steps returned, the sentiment model
\* answering with a label and the index accepting the vector
SeedRun(i, text, t) ==
  LET fetched == StepReturns([NewRun(i, R2Key(i)) EXCEPT
                                !.rawFeedback = Some(RawPayload(i, text, SeedSource(text), t))])
      analyzed == StepReturns([fetched EXCEPT
                                 !.analysis = Some(Analysis(text, Some("NEGATIVE")))])
      embedded == StepReturns([analyzed EXCEPT !.vector = Some(Embedding(text))])
      upserted == StepReturns([embedded EXCEPT !.vectorId = Some(i)])
  IN  StepReturns(upserted)

\* the row of item i after the INSERT of its submission and the UPDATE of
\* its run, which finished before the next submission
SeedRow(i, text, t) ==
  UpdateRow(InsertRow(i, R2Key(i), text, t), Val(SeedRun(i, text, t).analysis),
            SeedRun(i, text, t).vectorId, t)

\* the state after SeedItems accepted submissions whose runs completed
ArchiveInit ==
  \E texts \in SeedTexts, times \in SeedTimes :
    /\ d1 = [i \in SeedIds |-> SeedRow(i, texts[i], times[i])]
    /\ r2 = [k \in {R2Key(i) : i \in SeedIds} |->
               RawPayload(k[2], texts[k[2]], SeedSource(texts[k[2]]), times[k[2]])]
    /\ vec = [i \in SeedIds |-> VectorEntry(SeedRun(i, texts[i], times[i]))]
    /\ runs = [i \in SeedIds |-> SeedRun(i, texts[i], times[i])]
    /\ nextId = SeedItems + 1
    /\ now = times[SeedItems]
    /\ resp = NoResponse
    /\ probe = NoResponse

ArchiveSpec == ArchiveInit /\ [][SearchNext]_vars

----------------------------------------------------------------------------
(* Several runs side by side *)

\* the state after SeedItems submissions were accepted and their runs
\* created, before the engine took a step
RunsInit ==
  \E texts \in SeedTexts, times \in SeedTimes :
    /\ d1 = [i \in SeedIds |-> InsertRow(i, R2Key(i), texts[i], times[i])]
    /\ r2 = [k \in {R2Key(i) : i \in SeedIds} |->
               RawPayload(k[2], texts[k[2]], SeedSource(texts[k[2]]), times[k[2]])]
    /\ vec = <<>>
    /\ runs = [i \in SeedIds |-> NewRun(i, R2Key(i))]
    /\ nextId = SeedItems + 1
    /\ now = times[SeedItems]
    /\ resp = [op |-> "submit", status |-> 202, id |-> SeedItems,
               body_status |-> "PROCESSING", r2_key |-> R2Key(SeedItems)]
    /\ probe = [op |-> "submit", text |-> Some(texts[SeedItems]), r2 |-> "ok",
                d1 |-> "ok", trigger |-> "created"]

\* the first three stages of these runs, with their failures: the engine
\* executes a stage again after a failed attempt
RerunNext ==
  \/ \E i \in SeedIds : FetchFromR2(i)
  \/ \E i \in SeedIds : FetchFromR2Throws(i)
  \/ \E i \in SeedIds : AnalyzeWithAI(i)
  \/ \E i \in SeedIds : AnalyzeWithAIThrows(i)
  \/ \E i \in SeedIds : GenerateEmbedding(i)
  \/ \E i \in SeedIds : GenerateEmbeddingThrows(i)

RerunSpec == RunsInit /\ [][RerunNext]_vars

\* these runs taking their steps in any interleaving
ParallelNext == \E i \in SeedIds : RunStep(i)

ParallelSpec == RunsInit /\ [][ParallelNext]_vars

----------------------------------------------------------------------------
(* One run over texts that exercise Classify *)

TImprove == <<"p","l","e","a","s","e"," ","i","m","p","r","o","v","e">>
TBugBroken == <<"B","u","g",":"," ","a","p","p"," ","i","s"," ","B","R","O","K","E","N">>
TSlowIssue == <<"s","l","o","w",","," ","a","n"," ","i","s","s","u","e">>
THello == <<"h","e","l","l","o">>
TNiceIdea == <<"n","i","c","e"," ","i","d","e","a">>

\* a text of n characters without any keyword
Filler(n) == [k \in 1..n |-> "x"]

\* texts with keywords of one level, of several levels and of none, and
\* texts around the length at which the summary is cut
ClassifyTexts ==
  {TLoginBroken, TImprove, TBugBroken, TSlowIssue, THello, TNiceIdea,
   Filler(SummaryMax - 1), Filler(SummaryMax), Filler(SummaryMax + 1),
   Filler(SummaryMax + 2)}

\* the state right after the first submission was accepted with one of
\* these texts and its run was created
ClassifyInit ==
  \E text \in ClassifyTexts :
    /\ d1 = (1 :> InsertRow(1, R2Key(1), text, 1))
    /\ r2 = (R2Key(1) :> RawPayload(1, text, SourceOf(NULL), 1))
    /\ vec = <<>>
    /\ runs = TriggerWorkflow(<<>>, 1, R2Key(1), "created")
    /\ nextId = 2
    /\ now = 1
    /\ resp = [op |-> "submit", status |-> 202, id |-> 1,
               body_status |-> "PROCESSING", r2_key |-> R2Key(1)]
    /\ probe = [op |-> "submit", text |-> Some(text), r2 |-> "ok",
                d1 |-> "ok", trigger |-> "created"]

ClassifyNext == \E i \in Ids : RunStep(i)

ClassifySpec == ClassifyInit /\ [][ClassifyNext]_vars

----------------------------------------------------------------------------
(* Properties *)

\* the text contains the query, letter case aside
ContainsQuery(text, query) == Includes(ToLowerCase(text), ToLowerCase(query))

\* the vector attempt of the last search raised before the store was read
VectorFailed == probe.vector \in {"embedThrew", "queryThrew"}

\* the vector attempt of the last search raised an error
VectorRaised == probe.vector \in {"embedThrew", "queryThrew", "hydrateThrew"}

ResultIds == {resp.results[n].id : n \in DOMAIN resp.results}

Annotations == {"sentiment", "category", "urgency", "summary", "tags"}

Completed(i) ==
  /\ i \in DOMAIN d1
  /\ d1[i].status = "COMPLETED"
  /\ \A a \in Annotations : ~IsNull(d1[i][a])

\* C1: when the embedding call or the index query raises and the store
\* answers, a search for X with a stored item containing X is answered 200
\* in keyword mode, with a non-empty result that is the answer of the
\* keyword query and holds every stored item containing X.
C1_KeywordFallback ==
  (/\ resp.op = "search"
   /\ VectorFailed
   /\ probe.keyword # "threw"
   /\ Cardinality(DOMAIN d1) <= KeywordLimit
   /\ \E i \in DOMAIN d1 : ContainsQuery(d1[i].original_text, Val(probe.query)))
  => /\ resp.status = 200
     /\ resp.searchType = "keyword"
     /\ probe.keyword = "ok"
     /\ Len(resp.results) > 0
     /\ [n \in DOMAIN resp.results |-> resp.results[n].id] = probe.rows
     /\ \A i \in DOMAIN d1 :
          ContainsQuery(d1[i].original_text, Val(probe.query)) => i \in ResultIds

C1_Witness ==
  /\ resp.op = "search"
  /\ probe.vector = "queryThrew"
  /\ resp.status = 200
  /\ resp.searchType = "keyword"
  /\ Len(resp.results) > 0

\* C2 (as stated): a search is answered with an error only if the vector
\* attempt raised an error and the keyword attempt raised an error.
C2_ErrorOnlyIfBothRaised ==
  (resp.op = "search" /\ resp.status = 500)
  => (VectorRaised /\ probe.keyword = "threw")

\* C2 (amended): a search is answered with an error exactly when the
\* keyword attempt raised an error; the keyword attempt is made only when
\* the vector attempt left no rows; an error of the vector attempt with a
\* keyword attempt that answers gives a success response.
C2_ErrorIffKeywordRaised ==
  resp.op = "search"
  => /\ (resp.status = 500) <=> (probe.keyword = "threw")
     /\ probe.keyword # "notrun"
          => (probe.vector # "notrun"
              /\ Range(probe.candidates) \cap DOMAIN d1 = {})
     /\ (VectorRaised /\ probe.keyword = "ok") => resp.status = 200

C2_Witness ==
  /\ resp.op = "search"
  /\ resp.status = 500
  /\ probe.vector = "noCandidates"
  /\ probe.keyword = "threw"

\* C3: in a successful search the reported mode and step list name the
\* query that produced the returned items: keyword whenever they are rows
\* of the keyword query, semantic only if they are hydrated candidates.
C3_ModeNamesProducer ==
  (resp.op = "search" /\ resp.status = 200 /\ Len(resp.results) > 0)
  => /\ probe.keyword = "ok"
          => (resp.searchType = "keyword" /\ resp.process = "keyword steps")
     /\ resp.searchType = "semantic"
          => (probe.keyword = "notrun" /\ ResultIds \subseteq Range(probe.candidates))

\* C4: a record is created with status PROCESSING, a record is never
\* removed, and a step changes a status only from PROCESSING to COMPLETED
\* or FAILED (so it changes at most once and never back to PROCESSING).
C4_StatusChangesOnce ==
  [][/\ DOMAIN d1 \subseteq DOMAIN d1'
     /\ \A i \in DOMAIN d1' :
          IF i \in DOMAIN d1
            THEN d1'[i].status # d1[i].status
                   => /\ d1[i].status = "PROCESSING"
                      /\ d1'[i].status \in {"COMPLETED", "FAILED"}
            ELSE d1'[i].status = "PROCESSING"]_vars

\* the Finalize write was applied and the engine is about to apply it again
C4_Witness ==
  \E i \in DOMAIN runs :
    /\ i \in DOMAIN d1
    /\ d1[i].status = "COMPLETED"
    /\ runs[i].state = "running"
    /\ StepNames[runs[i].step] = "update-d1"
    /\ runs[i].attempts > 0

\* C5: every record is PROCESSING with sentiment, category, urgency,
\* summary and tags all null, or COMPLETED with all of them set.
C5_AllOrNothing ==
  \A i \in DOMAIN d1 :
    \/ /\ d1[i].status = "PROCESSING"
       /\ \A a \in Annotations : IsNull(d1[i][a])
    \/ /\ d1[i].status = "COMPLETED"
       /\ \A a \in Annotations : ~IsNull(d1[i][a])

\* a record the Finalize write completed, with what Classify derived
C5_Witness ==
  \E i \in DOMAIN d1 :
    /\ d1[i].status = "COMPLETED"
    /\ d1[i].urgency = Some("critical")
    /\ d1[i].tags = Some(<<"Crash">>)

\* C6 (as stated): every 202 is for an item that has a pipeline run.
C6_Every202HasRun ==
  (resp.op = "submit" /\ resp.status = 202) => resp.id \in DOMAIN runs

\* C6 (amended): every 202 is for an item whose payload is stored and whose
\* record is inserted as PROCESSING, and a run with that id and storage key
\* exists exactly when WORKFLOW.create was called and returned; runs exist
\* for accepted items only.
C6_202AfterTrigger ==
  /\ (resp.op = "submit" /\ resp.status = 202)
     => /\ resp.id \in DOMAIN d1
        /\ d1[resp.id].status = "PROCESSING"
        /\ d1[resp.id].r2_key \in DOMAIN r2
        /\ (resp.id \in DOMAIN runs) <=> (probe.trigger = "created")
  /\ \A i \in DOMAIN runs :
       /\ i \in DOMAIN d1
       /\ runs[i].payload = [feedbackId |-> i, r2Key |-> d1[i].r2_key]

C6_Witness ==
  /\ resp.op = "submit"
  /\ resp.status = 202
  /\ probe.trigger = "threw"
  /\ resp.id \notin DOMAIN runs

\* C7: with a fair engine and no failing call, every accepted item
\* eventually is COMPLETED with all annotations set.
C7_EventuallyCompleted ==
  \A i \in Ids : (i \in DOMAIN d1) ~> Completed(i)

C7_Witness ==
  \E i \in DOMAIN runs :
    /\ runs[i].state = "complete"
    /\ Completed(i)
    /\ i \in DOMAIN vec

\* C8: a run whose Embed stage found the embedding provider unavailable is
\* not aborted there.
C8_EmbedFailureContinues ==
  \A i \in DOMAIN runs :
    (StepNames[runs[i].step] = "generate-embedding" /\ runs[i].attempts > 0)
    => runs[i].state # "errored"

\* C9: no run ends in a stage that calls the inference provider, so an
\* error of the provider never keeps a run from Finalize.
C9_InferenceErrorRecovered ==
  \A i \in DOMAIN runs :
    runs[i].state = "errored"
    => StepNames[runs[i].step] \notin {"analyze-with-ai", "generate-embedding"}

\* the upsert of run i was attempted and the index does not hold its vector
UpsertFailed(i) ==
  /\ i \in DOMAIN runs
  /\ i \notin DOMAIN vec
  /\ \/ runs[i].step > 4
     \/ runs[i].step = 4 /\ (runs[i].attempts > 0 \/ runs[i].state = "errored")

\* C10: a run whose upsert failed is never aborted and its record is never
\* marked FAILED, and it eventually is COMPLETED with its annotations.
C10_UpsertFailureAbsorbed ==
  /\ [](\A i \in Ids : UpsertFailed(i)
          => (runs[i].state # "errored" /\ d1[i].status # "FAILED"))
  /\ \A i \in Ids : UpsertFailed(i) ~> Completed(i)

C10_Witness ==
  \E i \in DOMAIN runs :
    /\ runs[i].state = "complete"
    /\ runs[i].vector = Some(Embedding(d1[i].original_text))
    /\ i \notin DOMAIN vec
    /\ Completed(i)

\* C11: a record whose vector_id is set has a vector stored in the index
\* under that id.
C11_VectorIdNamesStoredVector ==
  \A i \in DOMAIN d1 :
    ~IsNull(d1[i].vector_id) => Val(d1[i].vector_id) \in DOMAIN vec

\* an attempt of the Finalize step of run i ends without a checkpoint
FinalizeAttemptFails(i) ==
  /\ AtStep(i, "update-d1")
  /\ \/ runs'[i].attempts = runs[i].attempts + 1
     \/ runs'[i].state = "errored"

\* C12: a Finalize attempt that fails without completing the record leaves
\* the record as it was, PROCESSING with every annotation null; and a step
\* that makes a record COMPLETED writes all its annotations in that step.
C12_FailedFinalizeWritesNothing ==
  [][\A i \in DOMAIN d1 :
       /\ (FinalizeAttemptFails(i) /\ d1'[i].status # "COMPLETED")
            => /\ d1'[i] = d1[i]
               /\ d1'[i].status = "PROCESSING"
               /\ \A a \in Annotations : IsNull(d1'[i][a])
       /\ (d1[i].status # "COMPLETED" /\ d1'[i].status = "COMPLETED")
            => \A a \in Annotations \cup {"processing_completed_at"} :
                 IsNull(d1[i][a]) /\ ~IsNull(d1'[i][a])]_vars

\* the Finalize write failed on every attempt and the run ended there
C12_Witness ==
  \E i \in DOMAIN runs :
    /\ runs[i].state = "errored"
    /\ StepNames[runs[i].step] = "update-d1"
    /\ d1[i].status = "PROCESSING"
    /\ \A a \in Annotations : IsNull(d1[i][a])

\* C13: a run whose raw payload is absent has failed at FetchRaw without a
\* retry (no attempt is pending or was repeated), never got past FetchRaw,
\* and has written neither a vector nor anything to its record.
C13_MissingPayloadIsFatal ==
  \A i \in DOMAIN runs :
    runs[i].payload.r2Key \notin DOMAIN r2
    => /\ runs[i].state = "errored"
       /\ StepNames[runs[i].step] = "fetch-from-r2"
       /\ runs[i].attempts = 0
       /\ i \notin DOMAIN vec
       /\ d1[i].status = "PROCESSING"
       /\ \A a \in Annotations : IsNull(d1[i][a])

\* C14: a search that runs while items are mid-pipeline fails only when the
\* store query itself raises, returns no item whose status is PROCESSING
\* among vector-mode results, and in keyword mode returns every PROCESSING
\* item whose text contains the query.
C14_SearchDuringPipeline ==
  (resp.op = "search" /\ probe.vector # "notrun")
  => /\ resp.status = 500 => probe.keyword = "threw"
     /\ (resp.status = 200 /\ probe.vector = "hydrated" /\ probe.keyword = "notrun")
          => \A i \in ResultIds : d1[i].status # "PROCESSING"
     /\ (resp.status = 200 /\ probe.keyword = "ok"
            /\ Cardinality(DOMAIN d1) <= KeywordLimit)
          => \A i \in DOMAIN d1 :
               (d1[i].status = "PROCESSING"
                  /\ ContainsQuery(d1[i].original_text, Val(probe.query)))
               => i \in ResultIds

\* the q parameter is missing, empty or made of whitespace only
BlankQuery(q) == IsNull(q) \/ \A k \in 1..Len(Val(q)) : IsSpace(Val(q)[k])

\* C15: a search whose query is missing, empty or whitespace only is
\* answered 400 and makes no embedding call, index query or store query.
C15_BlankQueryRejected ==
  (resp.op = "search" /\ BlankQuery(probe.query))
  => /\ resp.status = 400
     /\ probe.vector = "notrun"
     /\ probe.keyword = "notrun"

\* the non-empty whitespace-separated words of a query, in lower case
QueryWords(query) ==
  LET NonEmpty(w) == Len(w) > 0
  IN  SelectSeq(SplitWs(ToLowerCase(query)), NonEmpty)

\* the words of the query that occur in the text, letter case aside
WordsIn(text, query) ==
  LET InText(w) == Includes(ToLowerCase(text), w)
  IN  SelectSeq(QueryWords(query), InText)

\* the element of the response for item i
ResultOf(i) == resp.results[CHOOSE n \in DOMAIN resp.results : resp.results[n].id = i]

\* the query has none of the characters LIKE reads as wildcards
NoWildcard(query) == \A k \in 1..Len(query) : query[k] \notin {"%", "_"}

C17_KeywordScore ==
  (resp.op = "search" /\ resp.status = 200 /\ probe.keyword = "ok")
  => \A m \in DOMAIN resp.results :
       LET text == d1[resp.results[m].id].original_text
           n == Len(QueryWords(Val(probe.query)))
           k == Len(WordsIn(text, Val(probe.query)))
       IN  n > 0 => resp.results[m].percentage = Max(MinPercentage, RoundPct(k, n))

\* Math.max(0, Math.min(100, x))
Clamp(x) == IF x < 0 THEN 0 ELSE IF x > 100 THEN 100 ELSE x

\* the similarity the index returned for candidate i in the last search
SimilarityOf(i) ==
  probe.scores[CHOOSE n \in DOMAIN probe.candidates : probe.candidates[n] = i]

\* C18: in vector mode the relevance percentage of every returned item is
\* the similarity the index returned for that item's id, clamped into
\* [0, 100].
C18_ScoreIsOwnSimilarity ==
  (resp.op = "search" /\ resp.status = 200
     /\ probe.vector = "hydrated" /\ probe.keyword = "notrun")
  => \A n \in DOMAIN resp.results :
       resp.results[n].percentage = Clamp(SimilarityOf(resp.results[n].id))

\* the place of candidate i in the answer of the index
RankOf(i) == CHOOSE n \in DOMAIN probe.candidates : probe.candidates[n] = i

\* C19: results keep the upstream order: in vector mode the order in which
\* the index returned the ids, in keyword mode newest first.
C19_UpstreamOrder ==
  (resp.op = "search" /\ resp.status = 200)
  => \A a, b \in DOMAIN resp.results :
       a < b
       => /\ (probe.vector = "hydrated" /\ probe.keyword = "notrun")
               => RankOf(resp.results[a].id) < RankOf(resp.results[b].id)
          /\ probe.keyword = "ok"
               => d1[resp.results[a].id].created_at
                    >= d1[resp.results[b].id].created_at

\* C20: keyword mode returns at most 10 items, newest first, each of which
\* contains the whole query as a case-insensitive substring of its text;
\* a matching item is left out only when 10 items that are not older are
\* returned.
C20_KeywordSubstring ==
  (resp.op = "search" /\ resp.status = 200 /\ probe.keyword = "ok")
  => /\ Len(resp.results) <= KeywordLimit
     /\ \A a, b \in DOMAIN resp.results :
          a < b => d1[resp.results[a].id].created_at
                     >= d1[resp.results[b].id].created_at
     /\ \A i \in ResultIds :
          ContainsQuery(d1[i].original_text, Val(probe.query))
     /\ \A i \in DOMAIN d1 \ ResultIds :
          ContainsQuery(d1[i].original_text, Val(probe.query))
          => /\ Len(resp.results) = KeywordLimit
             /\ \A j \in ResultIds : d1[j].created_at >= d1[i].created_at

\* the text holds a keyword of the given urgency level, letter case aside
HasKeyword(text, level) ==
  \E k \in 1..Len(UrgencyKeywords) :
    /\ UrgencyKeywords[k].level = level
    /\ \E w \in UrgencyKeywords[k].keywords : Includes(ToLowerCase(text), w)

\* the text run i read from the bucket
TextOf(i) == Val(runs[i].rawFeedback).text

\* C21: the urgency Classify derives is critical if a critical keyword
\* occurs in the lowercased text, otherwise high if a high keyword occurs,
\* otherwise medium if a medium keyword occurs, otherwise low; it is always
\* one of the four levels, and Finalize stores it unchanged.
C21_UrgencyBySeverity ==
  \A i \in DOMAIN runs :
    ~IsNull(runs[i].analysis)
    => LET u == Val(runs[i].analysis).urgency
           text == TextOf(i)
       IN  /\ u \in {"critical", "high", "medium", "low"}
           /\ u = IF HasKeyword(text, "critical") THEN "critical"
                  ELSE IF HasKeyword(text, "high") THEN "high"
                  ELSE IF HasKeyword(text, "medium") THEN "medium"
                  ELSE "low"
           /\ d1[i].status = "COMPLETED" => d1[i].urgency = Some(u)

\* a text with a high and a critical keyword was classified critical
C21_Witness ==
  \E i \in DOMAIN runs :
    /\ ~IsNull(runs[i].analysis)
    /\ TextOf(i) = TBugBroken
    /\ HasKeyword(TextOf(i), "high")
    /\ Val(runs[i].analysis).urgency = "critical"
    /\ d1[i].urgency = Some("critical")

\* the text holds none of the keywords the workflow knows (urgencyKeywords
\* and tagMap are its only keyword tables)
KeywordFree(text) ==
  /\ \A k \in 1..Len(UrgencyKeywords) :
       \A w \in UrgencyKeywords[k].keywords : ~Includes(ToLowerCase(text), w)
  /\ \A k \in 1..Len(TagMap) :
       \A w \in TagMap[k].keywords : ~Includes(ToLowerCase(text), w)

\* C22: the category Classify assigns is a member of the taxonomy and is
\* "Other" for a text in which no keyword occurs.
C22_CategoryByKeyword ==
  \A i \in DOMAIN runs :
    ~IsNull(runs[i].analysis)
    => /\ Val(runs[i].analysis).category \in Range(Categories)
       /\ KeywordFree(TextOf(i)) => Val(runs[i].analysis).category = "Other"

\* C23: the summary is the text itself when the text has at most 100
\* characters, the first 97 characters followed by "..." when it has 101
\* or more, and never has more than 100 characters; Finalize stores it.
C23_SummaryBoundary ==
  \A i \in DOMAIN runs :
    ~IsNull(runs[i].analysis)
    => LET summary == Val(runs[i].analysis).summary
           text == TextOf(i)
       IN  /\ Len(text) <= 100 => summary = text
           /\ Len(text) >= 101
                => /\ SubSeq(summary, 1, 97) = SubSeq(text, 1, 97)
                   /\ SubSeq(summary, 98, Len(summary)) = <<".", ".", ".">>
           /\ Len(summary) <= 100
           /\ d1[i].status = "COMPLETED" => d1[i].summary = Some(summary)

\* a text of 101 characters was cut to 97 characters and "..."
C23_Witness ==
  \E i \in DOMAIN runs :
    /\ ~IsNull(runs[i].analysis)
    /\ Len(TextOf(i)) = 101
    /\ Len(Val(runs[i].analysis).summary) = 100
    /\ d1[i].summary = Some(Val(runs[i].analysis).summary)

\* C24: every COMPLETED record has both updated_at and
\* processing_completed_at set.
C24_CompletedIsStamped ==
  \A i \in DOMAIN d1 :
    d1[i].status = "COMPLETED"
    => /\ ~IsNull(d1[i].updated_at)
       /\ ~IsNull(d1[i].processing_completed_at)

\* C25: a response that reports a failure carries no text of the exception
\* that caused it (String(error) is sent in the field details).
C25_NoExceptionText ==
  (resp.op \in {"submit", "search"} /\ resp.status = 500)
  => "details" \notin DOMAIN resp

\* the explanation texts the handler attaches to rows of the keyword query
KeywordModeTexts ==
  {getRelevanceExplanation(<<>>, <<>>, score).text : score \in 0..100}

\* the explanation of a result is the one of the band of its reported score
BandOfReportedScore(r) ==
  LET matched == WordsIn(d1[r.id].original_text, Val(probe.query))
  IN  /\ r.percentage > 80
           => /\ r.explanation.text = "Very strong match."
              /\ r.explanation.keywords =
                   SubSeq(matched, 1, IF Len(matched) < 3 THEN Len(matched) ELSE 3)
      /\ (60 < r.percentage /\ r.percentage <= 80)
           => r.explanation.text
                = "Good match. Similar content and language patterns detected."
      /\ (40 < r.percentage /\ r.percentage <= 60)
           => r.explanation.text
                = "Moderate relevance. Some content overlap with your search."
      /\ r.percentage <= 40
           => r.explanation.text
                = "Related feedback. Could be relevant to your search."

\* C26: the explanation of every result is the one of the band of its
\* reported score, and the text given to a vector-mode result is never a
\* text that keyword mode gives.
C26_ExplanationTellsMode ==
  (resp.op = "search" /\ resp.status = 200)
  => \A n \in DOMAIN resp.results :
       /\ BandOfReportedScore(resp.results[n])
       /\ (probe.vector = "hydrated" /\ probe.keyword = "notrun")
            => resp.results[n].explanation.text \notin KeywordModeTexts

\* this step applies the UPDATE of 'update-d1' to the record of item i
FinalizeWriteApplied(i) == UpdateD1Step(i) \/ UpdateD1StepRerun(i)

\* C27: the Finalize write is applied to a record at most once: no step
\* applies it to a record that an earlier Finalize write has completed.
C27_FinalizeAtMostOnce ==
  [][\A i \in Ids : FinalizeWriteApplied(i) => d1[i].status # "COMPLETED"]_vars

\* stage number k of run i has returned
StageReturned(i, k) == runs[i].step > k \/ runs[i].state = "complete"

\* C28: a run goes through the five stages in order, one at a time: a
\* stage has produced its output exactly when the run is past it, the index
\* holds the item's vector only once Classify and Embed returned, and the
\* record is COMPLETED only once Classify and UpsertVector returned.
C28_StagesInOrder ==
  /\ [](\A i \in DOMAIN runs :
          /\ ~IsNull(runs[i].rawFeedback) <=> StageReturned(i, 1)
          /\ ~IsNull(runs[i].analysis) <=> StageReturned(i, 2)
          /\ ~IsNull(runs[i].vector) <=> StageReturned(i, 3)
          /\ ~IsNull(runs[i].vectorId) <=> StageReturned(i, 4)
          /\ i \in DOMAIN vec => (StageReturned(i, 2) /\ StageReturned(i, 3))
          /\ d1[i].status = "COMPLETED"
               => /\ StageReturned(i, 2)
                  /\ StageReturned(i, 4)
                  /\ StepNames[runs[i].step] = "update-d1")
  /\ [](\A i \in DOMAIN d1 \cup (DOMAIN vec \cap Ids) :
          (d1[i].status = "COMPLETED" \/ i \in DOMAIN vec) => i \in DOMAIN runs)
  /\ [][\A i \in DOMAIN runs' :
          IF i \in DOMAIN runs
            THEN runs'[i].step \in {runs[i].step, runs[i].step + 1}
            ELSE StepNames[runs'[i].step] = "fetch-from-r2"]_vars

\* a run that went through all five stages
C28_Witness ==
  \E i \in DOMAIN runs :
    /\ runs[i].state = "complete"
    /\ StepNames[runs[i].step] = "update-d1"
    /\ i \in DOMAIN vec
    /\ d1[i].status = "COMPLETED"
    /\ d1[i].vector_id = runs[i].vectorId

\* runs i and j read the same text and Classify returned for both
SameTextClassified(i, j) ==
  /\ ~IsNull(runs[i].analysis)
  /\ ~IsNull(runs[j].analysis)
  /\ TextOf(i) = TextOf(j)

\* C29: two executions of Classify on the same text give the same
\* sentiment, category, urgency, tags and summary, and two executions of
\* Embed on the same text give the same vector.
C29_SameTextSameOutput ==
  \A i, j \in DOMAIN runs :
    /\ SameTextClassified(i, j) => runs[i].analysis = runs[j].analysis
    /\ (~IsNull(runs[i].vector) /\ ~IsNull(runs[j].vector) /\ TextOf(i) = TextOf(j))
         => runs[i].vector = runs[j].vector

\* the columns of a row that the submission fixed
Identity(row) ==
  <<row.id, row.original_text, row.r2_key, row.created_at>>

\* C30: a step of the run for item a leaves the id, text, storage key and
\* creation time of a's row as they were, adds or removes no row, leaves
\* the bucket alone, and changes neither the row nor the index entry of any
\* other item b, whatever the other runs have done so far.
C30_RunWritesOwnItemOnly ==
  [][\A a \in DOMAIN runs :
       runs'[a] # runs[a]
       => /\ DOMAIN d1' = DOMAIN d1
          /\ r2' = r2
          /\ Identity(d1'[a]) = Identity(d1[a])
          /\ \A b \in DOMAIN d1 \ {a} :
               /\ d1'[b] = d1[b]
               /\ (b \in DOMAIN vec') = (b \in DOMAIN vec)
               /\ b \in DOMAIN vec => vec'[b] = vec[b]]_vars

\* two runs for different texts both finished, each row carrying its own
\* text's summary and each item its own index entry
C30_Witness ==
  \E a, b \in DOMAIN runs :
    /\ a # b
    /\ d1[a].original_text # d1[b].original_text
    /\ runs[a].state = "complete"
    /\ runs[b].state = "complete"
    /\ d1[a].status = "COMPLETED"
    /\ d1[b].status = "COMPLETED"
    /\ d1[a].tags = Some(extractTags(d1[a].original_text))
    /\ d1[b].tags = Some(extractTags(d1[b].original_text))
    /\ d1[a].tags # d1[b].tags
    /\ a \in DOMAIN vec
    /\ b \in DOMAIN vec

\* C31: a step that ends in an answer of GET /api/search, whatever the
\* answer (400, 500, keyword rows or hydrated candidates), leaves the
\* table, the bucket and the index exactly as they were.
C31_SearchReadOnly ==
  [][resp'.op = "search" => UNCHANGED <<d1, r2, vec>>]_vars

\* a search answered from the index over a store that holds a finished
\* item
C31_Witness ==
  /\ resp.op = "search"
  /\ resp.status = 200
  /\ probe.vector = "hydrated"
  /\ resp.results # <<>>
  /\ \E i \in DOMAIN d1 : d1[i].status = "COMPLETED" /\ i \in DOMAIN vec
  /\ DOMAIN r2 # {}

\* C32: when the index answered with candidates, ids among them that have
\* no row do not make the search fail, and an answer given as semantic
\* carries exactly the candidates that have a row.
C32_DanglingCandidatesDropped ==
  (resp.op = "search" /\ probe.vector = "hydrated")
  => /\ probe.keyword = "notrun" => resp.status = 200
     /\ (resp.status = 200 /\ resp.searchType = "semantic")
          => ResultIds = Range(probe.candidates) \cap DOMAIN d1

\* C33: the handler reaches the INSERT only after the put succeeded and
\* the trigger only after the INSERT succeeded; so every row has its
\* payload in the bucket, and every run carries the id and key of a row
\* that exists and of a payload that is in the bucket, which is what
\* fetch-from-r2 returned once it returned.
C33_PutInsertTrigger ==
  /\ resp.op = "submit"
     => /\ probe.d1 # "notrun" => probe.r2 = "ok"
        /\ probe.trigger # "notrun" => probe.d1 = "ok"
  /\ \A i \in DOMAIN d1 :
       /\ d1[i].r2_key \in DOMAIN r2
       /\ r2[d1[i].r2_key].id = i
       /\ r2[d1[i].r2_key].text = d1[i].original_text
  /\ \A i \in DOMAIN runs :
       /\ runs[i].payload.feedbackId = i
       /\ i \in DOMAIN d1
       /\ runs[i].payload.r2Key = d1[i].r2_key
       /\ runs[i].payload.r2Key \in DOMAIN r2
       /\ ~IsNull(runs[i].rawFeedback)
            => Val(runs[i].rawFeedback) = r2[runs[i].payload.r2Key]

\* a run whose fetch-from-r2 returned the payload of its item
C33_Witness ==
  \E i \in DOMAIN runs :
    /\ ~IsNull(runs[i].rawFeedback)
    /\ Val(runs[i].rawFeedback).id = i
    /\ Val(runs[i].rawFeedback).text = d1[i].original_text
    /\ runs[i].step > 1

\* C34: a submission answered with 400 or 500 has left nothing behind, so
\* every object in the bucket is the payload of a row of the table, and
\* every run is the run of a row.
C34_FailedSubmitLeavesNoTrace ==
  /\ \A k \in DOMAIN r2 : \E i \in DOMAIN d1 : d1[i].r2_key = k
  /\ \A i \in DOMAIN runs : i \in DOMAIN d1

====
